---- MODULE Spec2Model ----
(***************************************************************************)
(* Model of the ReverseTk plugin (src/plugins/reverseTk/index.tsx): the    *)
(* module-level capability bitmask, the three gateway interception hooks,  *)
(* the READY normaliser, the deep copy helper and the CallTrace class.     *)
(*                                                                         *)
(* JavaScript values are records tagged by `t`; objects, arrays and        *)
(* functions live in a heap (a sequence of cells) and are named by their   *)
(* index, so that reference identity and in-place mutation are visible.    *)
(* JavaScript numbers that take part in 32-bit operations are held as two  *)
(* 16-bit halves, value = hi * 65536 + lo, so that both the unsigned range *)
(* 0 .. 2^32-1 and the signed range -2^31 .. 2^31-1 are representable.     *)
(***************************************************************************)
EXTENDS Integers, Sequences, FiniteSets, TLC

VARIABLES
    heap,               \* object store: cell i is the object with address i
    heapBefore,         \* the object store when the last handler was entered
    capabilities,       \* `let capabilities` (index.tsx:67)
    modal,              \* React state of ReverseTkModalContent, or closed
    socket,             \* GatewaySocket fields the plugin touches
    sent,               \* arguments and result of the last outbound hook call
    firstIdentify,      \* capabilities of the first opcode-2 payload seen
    toggled,            \* bit positions toggled an odd number of times
    rawEdit,            \* last value typed in the capabilities text field
    budget,             \* remaining operations of each bounded kind
    fixReady,           \* settings.store.fixReady
    dispatch,           \* the inbound dispatch being handled and its outcome
    trace,              \* call-trace conversion: wire input, nodes, wire output
    copied,             \* a value handed to copy, and the copy
    stateWrites         \* assignments to connectionState by the last operation that made any

vars == <<heap, heapBefore, capabilities, modal, socket, sent,
          firstIdentify, toggled, rawEdit, budget, fixReady, dispatch, trace, copied,
          stateWrites>>

-----------------------------------------------------------------------------
(* JavaScript values *)

Undefined == [t |-> "undefined"]
Null == [t |-> "null"]
Str(s) == [t |-> "string", s |-> s]
Bool(b) == [t |-> "boolean", b |-> b]
Ref(a) == [t |-> "ref", a |-> a]
\* a number n = hi * 65536 + lo with 0 <= lo < 65536
Num(hi, lo) == [t |-> "number", hi |-> hi, lo |-> lo]
Small(n) == Num(0, n)

Half == 2^16

IsRef(v) == v.t = "ref"

-----------------------------------------------------------------------------
(* 32-bit integer operations of the language (ToInt32, &, |, ~, <<) *)

RECURSIVE And16(_, _, _)
\* bitwise AND of two 16-bit halves, `bits` bits at a time
And16(a, b, bits) ==
    IF bits = 0 THEN 0
    ELSE (IF a % 2 = 1 /\ b % 2 = 1 THEN 1 ELSE 0)
         + 2 * And16(a \div 2, b \div 2, bits - 1)

RECURSIVE Or16(_, _, _)
Or16(a, b, bits) ==
    IF bits = 0 THEN 0
    ELSE (IF a % 2 = 1 \/ b % 2 = 1 THEN 1 ELSE 0)
         + 2 * Or16(a \div 2, b \div 2, bits - 1)

\* the upper half as an unsigned 16-bit pattern
Pattern(hi) == hi % Half
\* the upper half of a signed 32-bit integer from its 16-bit pattern
Signed(p) == IF p >= Half \div 2 THEN p - Half ELSE p

ToInt32(n) == Num(Signed(Pattern(n.hi)), n.lo)

\* x & y, x | y, ~x: the operands are taken as 32-bit integers and so is the result
BitAnd(x, y) ==
    LET a == ToInt32(x)
        b == ToInt32(y)
    IN Num(Signed(And16(Pattern(a.hi), Pattern(b.hi), 16)), And16(a.lo, b.lo, 16))

BitOr(x, y) ==
    LET a == ToInt32(x)
        b == ToInt32(y)
    IN Num(Signed(Or16(Pattern(a.hi), Pattern(b.hi), 16)), Or16(a.lo, b.lo, 16))

BitNot(x) ==
    LET a == ToInt32(x) IN Num(Signed(Half - 1 - Pattern(a.hi)), Half - 1 - a.lo)

\* 1 << k for k in 0..31; 1 << 31 is -2147483648
ShiftLeft1(k) ==
    IF k < 16 THEN Num(0, 2^k) ELSE Num(Signed(2^(k - 16)), 0)

Truthy(n) == ~(n.hi = 0 /\ n.lo = 0)

\* bit k of the 32-bit pattern of n
BitOf(n, k) ==
    IF k < 16 THEN (n.lo \div 2^k) % 2 ELSE (Pattern(n.hi) \div 2^(k - 16)) % 2

\* KNOWN_CAPABILITIES[k][1]
KnownCapabilityValue(k) == ShiftLeft1(k)
KnownCapabilityBits == 0 .. 31

-----------------------------------------------------------------------------
(* The object store *)

Obj(proto, f) == [kind |-> "object", proto |-> proto, f |-> f]
Arr(e) == [kind |-> "array", e |-> e]
Fn(target) == [kind |-> "function", target |-> target]

NoFields == [k \in {} |-> Undefined]
Fields1(k1, v1) == [k \in {k1} |-> v1]
Fields2(k1, v1, k2, v2) == [k \in {k1, k2} |-> IF k = k1 THEN v1 ELSE v2]
Fields3(k1, v1, k2, v2, k3, v3) ==
    [k \in {k1, k2, k3} |-> IF k = k1 THEN v1 ELSE IF k = k2 THEN v2 ELSE v3]

Alloc(h, cell) == [h |-> Append(h, cell), v |-> Ref(Len(h) + 1)]

IsObject(h, v) == IsRef(v) /\ h[v.a].kind = "object"
IsArray(h, v) == IsRef(v) /\ h[v.a].kind = "array"

\* obj[key]: a missing property reads as undefined
Get(h, v, key) ==
    IF key \in DOMAIN h[v.a].f THEN h[v.a].f[key] ELSE Undefined

\* obj[key] = val
Put(h, v, key, val) ==
    [h EXCEPT ![v.a].f =
        [k \in DOMAIN h[v.a].f \cup {key} |-> IF k = key THEN val ELSE h[v.a].f[k]]]

\* delete obj[key]
Delete(h, v, key) ==
    [h EXCEPT ![v.a].f = [k \in DOMAIN h[v.a].f \ {key} |-> h[v.a].f[k]]]

\* the structure below a value, without addresses; function leaves all look alike
RECURSIVE Tree(_, _)
Tree(h, v) ==
    IF ~IsRef(v) THEN v
    ELSE LET c == h[v.a] IN
         CASE c.kind = "function" -> [kind |-> "function"]
           [] c.kind = "array" ->
                [kind |-> "array", e |-> [i \in DOMAIN c.e |-> Tree(h, c.e[i])]]
           [] c.kind = "object" ->
                [kind |-> "object", proto |-> c.proto,
                 f |-> [k \in DOMAIN c.f |-> Tree(h, c.f[k])]]

deepEquals(h, x, y) == Tree(h, x) = Tree(h, y)

\* addresses of the records and sequences reachable from a value
RECURSIVE Containers(_, _)
Containers(h, v) ==
    IF ~IsRef(v) THEN {}
    ELSE LET c == h[v.a] IN
         CASE c.kind = "function" -> {}
           [] c.kind = "array" ->
                {v.a} \cup UNION {Containers(h, c.e[i]) : i \in DOMAIN c.e}
           [] c.kind = "object" ->
                {v.a} \cup UNION {Containers(h, c.f[k]) : k \in DOMAIN c.f}

-----------------------------------------------------------------------------
(* copy (index.tsx:72-88) *)

RECURSIVE copy(_, _)
RECURSIVE CopyElems(_, _, _, _)
RECURSIVE CopyEntries(_, _, _, _)

\* obj.map(copy): the elements are copied left to right into a new array
CopyElems(h, e, i, acc) ==
    IF i > Len(e) THEN [h |-> h, e |-> acc]
    ELSE LET r == copy(h, e[i]) IN CopyElems(r.h, e, i + 1, Append(acc, r.v))

\* for (const [k, v] of Object.entries(obj)) ret[k] = copy(v)
CopyEntries(h, f, keys, acc) ==
    IF keys = {} THEN [h |-> h, f |-> acc]
    ELSE LET k == CHOOSE x \in keys : TRUE
             r == copy(h, f[k])
         IN CopyEntries(r.h, f, keys \ {k},
                        [x \in DOMAIN acc \cup {k} |-> IF x = k THEN r.v ELSE acc[x]])

\* a variant: the array itself is new but its elements are not copied
CopyArrayShallow(h, v) == Alloc(h, Arr(h[v.a].e))

\* if (Array.isArray(obj)) return obj.map(copy)
CopyArray(h, v) ==
    LET r == CopyElems(h, h[v.a].e, 1, <<>>) IN Alloc(r.h, Arr(r.e))

\* a variant: the record is returned as it is
CopyRecordAlias(h, v) == [h |-> h, v |-> v]

\* const ret = {}; copy the entries; keep a prototype other than Object's
CopyRecord(h, v) ==
    LET r == CopyEntries(h, h[v.a].f, DOMAIN h[v.a].f, NoFields)
        proto == IF h[v.a].proto # "Object" THEN h[v.a].proto ELSE "Object"
    IN Alloc(r.h, Obj(proto, r.f))

copy(h, v) ==
    IF v.t \in {"undefined", "null", "bigint", "boolean", "number", "string"}
    THEN [h |-> h, v |-> v]
    ELSE IF h[v.a].kind = "function" THEN Alloc(h, Fn(v.a))
    ELSE IF h[v.a].kind = "array" THEN CopyArray(h, v)
    ELSE CopyRecord(h, v)

-----------------------------------------------------------------------------
(* Bounds of the exploration *)

MaxSends == 2
MaxToggles == 2
MaxDispatches == 3
MaxWrites == 2

\* bit positions whose checkbox the operator clicks in the gateway runs
ClickedBits == {0, 31}
\* capabilities values carried by the client's own identify payloads
PayloadCapabilities == {Small(1), Small(999)}
\* strings typed into the capabilities text field
TypedTexts == {<<"5">>, <<"-", "1">>, <<>>}

ConnectionStates ==
    {"CLOSED", "WILL_RECONNECT", "CONNECTING", "IDENTIFYING", "RESUMING",
     "SESSION_ESTABLISHED"}

-----------------------------------------------------------------------------
(* _interceptIncomingDispatchPayload (index.tsx:388-444) *)

\* const outerFields = [...] (index.tsx:408-431)
outerFields ==
    <<"id", "data_mode", "partial_updates", "channel_updates",
      "guild_scheduled_events", "joined_at", "last_messages", "member_count",
      "members", "premium_subscription_count", "roles", "stage_instances",
      "unable_to_sync_deletes", "threads", "version", "has_threads_subscription",
      "stickers", "presences", "activity_instances", "voice_states">>

DigitChars == <<"0", "1", "2", "3", "4", "5", "6", "7", "8", "9">>
\* String(i) for 0 <= i < 100
IndexString(i) ==
    IF i < 10 THEN DigitChars[i + 1]
    ELSE DigitChars[(i \div 10) + 1] \o DigitChars[(i % 10) + 1]

\* some of the property names an array inherits from Array.prototype and
\* Object.prototype
ArrayPrototypeKeys == {"constructor", "toString", "map", "at", "includes", "indexOf"}

\* key in arr: the `in` operator asks whether the array has a PROPERTY of that
\* name, that is an index below its length, "length", or an inherited name
KeyInArray(key, arr) ==
    \/ key \in {IndexString(i) : i \in 0 .. Len(arr) - 1}
    \/ key = "length"
    \/ key \in ArrayPrototypeKeys

\* Array.isArray(data[key])
ShouldWrap(h, data, key) == IsArray(h, Get(h, data, key))

\* data[key] = {entries: data[key], partial: false, version: 1}
WrapLegacy(h, data, key) ==
    IF ShouldWrap(h, data, key)
    THEN LET r == Alloc(h, Obj("Object", Fields3("entries", Get(h, data, key),
                                                 "partial", Bool(FALSE),
                                                 "version", Small(1))))
         IN Put(r.h, data, key, r.v)
    ELSE h

\* for (const key of Object.keys(guildData))
\*     if (key in outerFields) { properties[key] = guildData[key]; delete guildData[key]; }
RECURSIVE MoveKeys(_, _, _, _)
MoveKeys(h, guildData, properties, keys) ==
    IF keys = {} THEN h
    ELSE LET key == CHOOSE k \in keys : TRUE
             h1 == IF KeyInArray(key, outerFields)
                   THEN Delete(Put(h, properties, key, Get(h, guildData, key)),
                               guildData, key)
                   ELSE h
         IN MoveKeys(h1, guildData, properties, keys \ {key})

\* a variant: every record is partitioned, also one that has `properties`
NeedsPartitionAlways(h, guildData) == TRUE

\* !("properties" in guildData)
NeedsPartition(h, guildData) == "properties" \notin DOMAIN h[guildData.a].f

\* the body of the loop over data.guilds, for a guild that is a record
PartitionGuild(h, guildData) ==
    IF NeedsPartition(h, guildData)
    THEN LET r == Alloc(h, Obj("Object", NoFields))
             moved == MoveKeys(r.h, guildData, r.v, DOMAIN h[guildData.a].f)
         IN Put(moved, guildData, "properties", r.v)
    ELSE h

\* for (const guildData of data.guilds): an entry that is not an object makes
\* `"properties" in guildData` throw a TypeError, which ends the loop.  Guild
\* entries in the explored payloads are records or primitives.
RECURSIVE PartitionGuilds(_, _, _)
PartitionGuilds(h, guilds, i) ==
    IF i > Len(h[guilds.a].e) THEN [h |-> h, result |-> "returned"]
    ELSE LET guildData == h[guilds.a].e[i]
         IN IF ~IsObject(h, guildData) THEN [h |-> h, result |-> "threw"]
            ELSE PartitionGuilds(PartitionGuild(h, guildData), guilds, i + 1)

\* what `for ... of` does with a value: an array is walked; a string is walked
\* character by character, so the first character reaches the `in` test and
\* throws; anything else is not iterable and throws at once
IterateGuilds(h, guilds) ==
    IF IsArray(h, guilds) THEN PartitionGuilds(h, guilds, 1)
    ELSE IF guilds.t = "string" /\ guilds.s = "" THEN [h |-> h, result |-> "returned"]
    ELSE [h |-> h, result |-> "threw"]

interceptIncomingDispatchPayload(h, type, data, fix) ==
    IF type = "READY" /\ fix
    THEN LET h1 == WrapLegacy(h, data, "read_state")
             h2 == WrapLegacy(h1, data, "user_guild_settings")
             r == IterateGuilds(h2, Get(h2, data, "guilds"))
         IN [h |-> r.h, result |-> r.result, ret |-> <<type, data>>]
    ELSE [h |-> h, result |-> "returned", ret |-> <<type, data>>]

-----------------------------------------------------------------------------
(* READY payloads as they arrive from the gateway *)

\* {read_state: ["a", "b"], user_guild_settings: [],
\*  guilds: [{id: "1", member_count: 5, name: "G"}]}
LegacyReady ==
    [h |-> <<Arr(<<Str("a"), Str("b")>>), Arr(<<>>),
             Obj("Object", Fields3("id", Str("1"), "member_count", Small(5),
                                   "name", Str("G"))),
             Arr(<<Ref(3)>>),
             Obj("Object", Fields3("read_state", Ref(1), "user_guild_settings", Ref(2),
                                   "guilds", Ref(4)))>>,
     v |-> Ref(5)]

\* read_state already versioned, user_guild_settings still a sequence; one guild
\* already has properties, one is flat
VersionedReady ==
    [h |-> <<Arr(<<Str("a")>>),
             Obj("Object", Fields3("entries", Ref(1), "partial", Bool(TRUE),
                                   "version", Small(7))),
             Obj("Object", Fields1("id", Str("1"))),
             Obj("Object", Fields2("properties", Ref(3), "name", Str("G"))),
             Obj("Object", Fields2("id", Str("2"), "roles", Null)),
             Arr(<<Ref(4), Ref(5)>>),
             Obj("Object", Fields3("read_state", Ref(2), "user_guild_settings", Ref(1),
                                   "guilds", Ref(6)))>>,
     v |-> Ref(7)]

\* the guild list is absent
NoGuildsReady ==
    [h |-> <<Arr(<<Str("a")>>), Obj("Object", Fields1("read_state", Ref(1)))>>,
     v |-> Ref(2)]

\* the guild list is a record, not a sequence
RecordGuildsReady ==
    [h |-> <<Arr(<<Str("a")>>), Obj("Object", Fields1("id", Str("1"))),
             Obj("Object", Fields2("user_guild_settings", Ref(1), "guilds", Ref(2)))>>,
     v |-> Ref(3)]

\* one guild entry is not a record: [{id: "1"}, null, {id: "3", name: "H"}]
BadEntryReady ==
    [h |-> <<Arr(<<Str("a")>>), Obj("Object", Fields1("id", Str("1"))),
             Obj("Object", Fields2("id", Str("3"), "name", Str("H"))),
             Arr(<<Ref(2), Null, Ref(3)>>),
             Obj("Object", Fields2("read_state", Ref(1), "guilds", Ref(4)))>>,
     v |-> Ref(5)]

\* a guild with a field named like an array index: {"0": "zero", id: "1"}
IndexKeyReady ==
    [h |-> <<Obj("Object", Fields2("0", Str("zero"), "id", Str("1"))),
             Arr(<<Ref(1)>>),
             Obj("Object", Fields1("guilds", Ref(2)))>>,
     v |-> Ref(3)]

\* an empty guild list
EmptyReady ==
    [h |-> <<Arr(<<>>), Arr(<<>>),
             Obj("Object", Fields2("read_state", Ref(1), "guilds", Ref(2)))>>,
     v |-> Ref(3)]

DispatchPayloads ==
    {LegacyReady, VersionedReady, NoGuildsReady, RecordGuildsReady, BadEntryReady,
     IndexKeyReady, EmptyReady}
DispatchTypes == {"READY", "MESSAGE_CREATE"}

-----------------------------------------------------------------------------
(* _interceptOutgoingPayload (index.tsx:450-462) *)

\* a variant: every identify overwrites the stored bitmask
CaptureAlways(caps, initial) == initial

\* if (capabilities === undefined) capabilities = data.capabilities
Capture(caps, initial) == IF caps = Undefined THEN initial ELSE caps

\* data.capabilities = capabilities
Inject(h, data, caps) == Put(h, data, "capabilities", caps)

interceptOutgoingPayload(h, caps, opcode, data, checkSessionEstablished) ==
    LET flag == IF checkSessionEstablished = Undefined THEN Bool(TRUE)
                ELSE checkSessionEstablished
    IN IF opcode = 2
       THEN LET caps1 == Capture(caps, Get(h, data, "capabilities"))
                c == copy(h, data)
            IN [h |-> Inject(c.h, c.v, caps1), caps |-> caps1,
                ret |-> <<opcode, c.v, flag>>]
       ELSE [h |-> h, caps |-> caps, ret |-> <<opcode, data, flag>>]

\* the payload the client builds for an opcode: identify (2) carries its own
\* capabilities value, heartbeat (1) the sequence number, the others a record
OutboundPayload(opcode, caps, seq) ==
    IF opcode = 2
    THEN [h |-> <<Obj("Object", Fields1("os", Str("linux"))),
                  Obj("Object", Fields3("capabilities", caps, "token", Str("x"),
                                        "properties", Ref(1)))>>,
          v |-> Ref(2)]
    ELSE IF opcode = 1 THEN [h |-> <<>>, v |-> Small(seq)]
    ELSE [h |-> <<Obj("Object", Fields2("status", Str("online"),
                                        "capabilities", Small(7)))>>,
          v |-> Ref(1)]

NoSend == [opcode |-> 0]
NoDispatch == [type |-> "none"]
NoTrace == [stage |-> "none"]
NoCopy == [stage |-> "none"]

\* GatewaySocket.send(opcode, data, flag): the patched method runs the hook first
Send(opcode, caps, flag) ==
    /\ budget.sends > 0
    /\ LET p == OutboundPayload(opcode, caps, socket.seq)
           r == interceptOutgoingPayload(p.h, capabilities, opcode, p.v, flag)
       IN /\ heapBefore' = p.h
          /\ heap' = r.h
          /\ capabilities' = r.caps
          /\ sent' = [opcode |-> opcode, dataIn |-> p.v, flagIn |-> flag,
                      opcodeOut |-> r.ret[1], dataOut |-> r.ret[2],
                      flagOut |-> r.ret[3], held |-> r.caps, typed |-> rawEdit,
                      toggled |-> toggled]
          /\ firstIdentify' = IF opcode = 2 /\ firstIdentify = Undefined
                              THEN caps ELSE firstIdentify
    /\ budget' = [budget EXCEPT !.sends = @ - 1]
    /\ UNCHANGED <<modal, socket, toggled, rawEdit, fixReady, dispatch, trace, copied,
                   stateWrites>>

\* _interceptIncomingHello (index.tsx:446-448): the payload is returned as it is
interceptIncomingHello(data) == data

\* GatewaySocket._handleHello(data): the hook hands the payload back and writes
\* nothing of the plugin's
Hello ==
    /\ \A c \in PayloadCapabilities : interceptIncomingHello(c) = c
    /\ UNCHANGED vars

\* GatewaySocket._handleDispatch while the gateway runs: the hook rewrites the
\* payload it is given, or throws, and writes nothing else
InboundDispatch(type, p) ==
    /\ interceptIncomingDispatchPayload(p.h, type, p.v, fixReady).result
          \in {"returned", "threw"}
    /\ UNCHANGED vars

\* _captureConnectionStateUpdate (index.tsx:464-472): the body is commented out
captureConnectionStateUpdate(sock, oldState, newState) == sock

\* an assignment to GatewaySocket.connectionState and the code that made it
TransportWrite(state) == [by |-> "transport", state |-> state]
PluginWrite(state) == [by |-> "plugin", state |-> state]

\* the patched setter: the hook runs, then the transport stores the new state
SetConnectionState(newState) ==
    /\ socket' = [captureConnectionStateUpdate(socket, socket.connectionState, newState)
                    EXCEPT !.connectionState = newState]
    /\ stateWrites' = <<TransportWrite(newState)>>
    /\ UNCHANGED <<heap, heapBefore, budget, capabilities, modal, sent, firstIdentify,
                   toggled, rawEdit, fixReady, dispatch, trace, copied>>

-----------------------------------------------------------------------------
(* class CallTrace (index.tsx:95-119) *)

\* A duration in milliseconds is a binary fraction: a whole number of units of
\* 2^-16 ms.  A double carries more fraction bits than that for every duration
\* explored here, so a conversion that is exact at this precision is exact in
\* the double as well.
FractionUnit == 2^16

\* data.micros / 1000, rounded to the nearest representable duration
DivideBy1000(micros) == (micros * FractionUnit + 500) \div 1000

\* a variant: the fraction is cut off (Math.floor)
MathFloor(units) == units \div FractionUnit

\* Math.round of a number held in duration units
MathRound(units) == (units + FractionUnit \div 2) \div FractionUnit

\* new CallTrace(name, data)
RECURSIVE CallTrace(_, _)
CallTrace(name, data) ==
    LET calls == IF "calls" \in DOMAIN data THEN data.calls ELSE <<>>
    IN [name |-> name,
        duration |-> DivideBy1000(data.micros),
        calls |-> [i \in DOMAIN calls |-> CallTrace(calls[i][1], calls[i][2])]]

\* call.toData()
RECURSIVE toData(_)
toData(call) ==
    <<call.name,
      [micros |-> MathRound(call.duration * 1000),
       calls |-> [i \in DOMAIN call.calls |-> toData(call.calls[i])]]>>

\* a tuple list to nodes and back
fromWire(tuples) == [i \in DOMAIN tuples |-> CallTrace(tuples[i][1], tuples[i][2])]
toWire(nodes) == [i \in DOMAIN nodes |-> toData(nodes[i])]

\* the pieces a rendered text is made of: "\n", "|  ", and `${name}: ${duration}`
NewlineChar == [c |-> "newline"]
BarPrefix == [c |-> "bar"]
LineText(call) == [c |-> "text", name |-> call.name, duration |-> call.duration]

\* text.split('\n'): the pieces between newlines, the empty text giving one empty piece
RECURSIVE Split(_)
Split(text) ==
    IF text = <<>> THEN << <<>> >>
    ELSE IF Head(text) = NewlineChar THEN << <<>> >> \o Split(Tail(text))
    ELSE LET rest == Split(Tail(text))
         IN << <<Head(text)>> \o rest[1] >> \o Tail(rest)

\* parts.join('\n')
RECURSIVE Join(_)
Join(parts) ==
    IF parts = <<>> THEN <<>>
    ELSE IF Len(parts) = 1 THEN parts[1]
    ELSE parts[1] \o <<NewlineChar>> \o Join(Tail(parts))

\* buildTree(calls): each call adds its line and, if it has sub-calls, the
\* '|  '-prefixed lines of buildTree([subCall]) of each, joined by newlines
RECURSIVE buildTree(_)
buildTree(calls) ==
    IF calls = <<>> THEN <<>>
    ELSE LET call == Head(calls)
             sub == [i \in DOMAIN call.calls |->
                        LET lines == Split(buildTree(<<call.calls[i]>>))
                        IN Join([j \in DOMAIN lines |-> <<BarPrefix>> \o lines[j]])]
         IN <<LineText(call), NewlineChar>>
            \o (IF Len(call.calls) > 0 THEN Join(sub) ELSE <<>>)
            \o buildTree(Tail(calls))

-----------------------------------------------------------------------------
(* ReverseTkModalContent (index.tsx:147-316) *)

ModalClosed == [open |-> FALSE]

\* enum ReverseTkModalTab
GATEWAY_TAB == Small(0)
LOGS_TAB == Small(1)
EVENTS_TAB == Small(2)

\* a render shows the capability checkboxes when capabilities is not undefined
Render(m, caps) == [m EXCEPT !.checkboxes = (caps # Undefined)]

\* a state setter re-renders the component when the state changed
SetState(m, m2, caps) == IF m2 = m THEN m ELSE Render(m2, caps)

\* the controls of the gateway tab exist when that tab's id is the current tab
GatewayTabShown == modal.open /\ modal.currentTab = GATEWAY_TAB

\* toolboxActions: openModal(... defaultTab="GATEWAY_TAB" | "LOGS_TAB")
OpenModal(defaultTab) ==
    /\ ~modal.open
    /\ modal' = Render([open |-> TRUE, currentTab |-> Str(defaultTab),
                        fullReconnect |-> FALSE, destroyOldSession |-> TRUE,
                        currentCapabilities |-> capabilities, checkboxes |-> FALSE],
                       capabilities)
    /\ UNCHANGED <<heap, heapBefore, capabilities, socket, sent, firstIdentify,
                   toggled, rawEdit, budget, fixReady, dispatch, trace, copied,
                   stateWrites>>

CloseModal ==
    /\ modal.open
    /\ modal' = ModalClosed
    /\ UNCHANGED <<heap, heapBefore, capabilities, socket, sent, firstIdentify,
                   toggled, rawEdit, budget, fixReady, dispatch, trace, copied,
                   stateWrites>>

\* TabBar onItemSelect={setCurrentTab}
SelectTab(tab) ==
    /\ modal.open
    /\ modal.currentTab # tab
    /\ modal' = SetState(modal, [modal EXCEPT !.currentTab = tab], capabilities)
    /\ UNCHANGED <<heap, heapBefore, capabilities, socket, sent, firstIdentify,
                   toggled, rawEdit, budget, fixReady, dispatch, trace, copied,
                   stateWrites>>

\* onChange={() => setFullReconnect(!fullReconnect)}
ToggleFullReconnect ==
    /\ GatewayTabShown
    /\ modal' = SetState(modal, [modal EXCEPT !.fullReconnect = ~@], capabilities)
    /\ UNCHANGED <<heap, heapBefore, capabilities, socket, sent, firstIdentify,
                   toggled, rawEdit, budget, fixReady, dispatch, trace, copied,
                   stateWrites>>

\* const val = !destroyOldSession; setDestroyOldSession(val);
\* if (val) setFullReconnect(false)
ToggleDestroyOldSession ==
    /\ GatewayTabShown
    /\ LET val == ~modal.destroyOldSession
       IN modal' = SetState(modal,
                       [modal EXCEPT !.destroyOldSession = val,
                                     !.fullReconnect = IF val THEN FALSE ELSE @],
                       capabilities)
    /\ UNCHANGED <<heap, heapBefore, capabilities, socket, sent, firstIdentify,
                   toggled, rawEdit, budget, fixReady, dispatch, trace, copied,
                   stateWrites>>

\* states the transport may be in when _connect() returns
AfterConnect == {"WILL_RECONNECT", "CONNECTING"}
\* states the transport may be in when _handleReconnect() returns
AfterHandleReconnect(state) == {state, "WILL_RECONNECT", "CONNECTING", "RESUMING"}

\* the "Reconnect to Gateway" button (index.tsx:216-235)
Reconnect ==
    /\ GatewayTabShown
    /\ LET s1 == IF modal.fullReconnect
                 THEN [socket EXCEPT !.seq = 0, !.sessionId = "null"]
                 ELSE socket
       IN IF modal.destroyOldSession
          THEN \E st \in AfterConnect :
                  /\ socket' =
                       [captureConnectionStateUpdate(
                           [captureConnectionStateUpdate(s1, s1.connectionState,
                                                         "WILL_RECONNECT")
                              EXCEPT !.connectionState = "WILL_RECONNECT"],
                           "WILL_RECONNECT", st)
                          EXCEPT !.connectionState = st]
                  /\ stateWrites' =
                       <<PluginWrite("WILL_RECONNECT")>>
                       \o IF st = "WILL_RECONNECT" THEN <<>> ELSE <<TransportWrite(st)>>
          ELSE \E st \in AfterHandleReconnect(s1.connectionState) :
                  /\ socket' = [captureConnectionStateUpdate(s1, s1.connectionState, st)
                                  EXCEPT !.connectionState = st]
                  /\ stateWrites' = IF st = s1.connectionState THEN stateWrites
                                    ELSE <<TransportWrite(st)>>
    /\ UNCHANGED <<heap, heapBefore, budget, capabilities, modal, sent, firstIdentify,
                   toggled, rawEdit, fixReady, dispatch, trace, copied>>

Digits == {"0", "1", "2", "3", "4", "5", "6", "7", "8", "9"}
DigitValue(c) ==
    CASE c = "0" -> 0 [] c = "1" -> 1 [] c = "2" -> 2 [] c = "3" -> 3 [] c = "4" -> 4
      [] c = "5" -> 5 [] c = "6" -> 6 [] c = "7" -> 7 [] c = "8" -> 8 [] c = "9" -> 9

\* validate={v => /^[0-9]+$/.test(v) || "..."}
Validate(text) == Len(text) > 0 /\ \A i \in 1 .. Len(text) : text[i] \in Digits

\* +v for a string of decimal digits
RECURSIVE Decimal(_)
Decimal(text) ==
    IF text = <<>> THEN 0
    ELSE 10 * Decimal(SubSeq(text, 1, Len(text) - 1)) + DigitValue(text[Len(text)])

ToNumber(text) == Small(Decimal(text))

\* the capabilities text field (index.tsx:240-244): onChange={v => setCapabilities(+v)}
\* runs for a text that passes validate; only the component's state is written
EditCapabilitiesText(text) ==
    /\ GatewayTabShown
    /\ IF Validate(text)
       THEN /\ modal' = SetState(modal,
                            [modal EXCEPT !.currentCapabilities = ToNumber(text)],
                            capabilities)
            /\ rawEdit' = ToNumber(text)
       ELSE UNCHANGED <<modal, rawEdit>>
    /\ UNCHANGED <<heap, heapBefore, budget, capabilities, socket, sent, firstIdentify,
                   toggled, fixReady, dispatch, trace, copied, stateWrites>>

\* a variant that leaves the bitmask alone
ToggleBitNoop(caps, k) == caps

\* if (capabilities & value) capabilities &= ~value; else capabilities |= value;
ToggleBit(caps, k) ==
    LET value == KnownCapabilityValue(k)
    IN IF Truthy(BitAnd(caps, value)) THEN BitAnd(caps, BitNot(value))
       ELSE BitOr(caps, value)

\* a capability checkbox (index.tsx:252-265); then setCapabilities(capabilities)
ToggleCapability(k) ==
    /\ GatewayTabShown
    /\ modal.checkboxes
    /\ budget.toggles > 0
    /\ budget' = [budget EXCEPT !.toggles = @ - 1]
    /\ capabilities' = ToggleBit(capabilities, k)
    /\ modal' = SetState(modal, [modal EXCEPT !.currentCapabilities = capabilities'],
                         capabilities')
    /\ toggled' = IF k \in toggled THEN toggled \ {k} ELSE toggled \cup {k}
    /\ rawEdit' = Undefined
    /\ UNCHANGED <<heap, heapBefore, socket, sent, firstIdentify, fixReady,
                   dispatch, trace, copied, stateWrites>>

-----------------------------------------------------------------------------
(* The gateway: the capability bitmask, the hooks and the operator's modal *)

Opcodes == {1, 2, 3}
Flags == {Undefined, Bool(TRUE), Bool(FALSE)}

InitGateway ==
    /\ heap = <<>>
    /\ heapBefore = <<>>
    /\ capabilities = Undefined
    /\ modal = ModalClosed
    /\ socket = [connectionState |-> "CLOSED", seq |-> 0, sessionId |-> "null"]
    /\ sent = NoSend
    /\ firstIdentify = Undefined
    /\ toggled = {}
    /\ rawEdit = Undefined
    /\ budget = [sends |-> MaxSends, toggles |-> MaxToggles,
                 dispatches |-> MaxDispatches, writes |-> MaxWrites]
    /\ fixReady = TRUE
    /\ dispatch = NoDispatch
    /\ trace = NoTrace
    /\ copied = NoCopy
    /\ stateWrites = <<>>

NextGateway ==
    \/ \E c \in PayloadCapabilities, f \in Flags : Send(2, c, f)
    \/ \E op \in Opcodes \ {2} : Send(op, Undefined, Undefined)
    \/ Hello
    \/ InboundDispatch("READY", BadEntryReady)
    \/ \E st \in ConnectionStates : SetConnectionState(st)
    \/ \E tab \in {"GATEWAY_TAB", "LOGS_TAB"} : OpenModal(tab)
    \/ CloseModal
    \/ \E tab \in {GATEWAY_TAB, LOGS_TAB} : SelectTab(tab)
    \/ Reconnect
    \/ \E text \in TypedTexts : EditCapabilitiesText(text)
    \/ \E k \in ClickedBits : ToggleCapability(k)

SpecGateway == InitGateway /\ [][NextGateway]_vars

\* the reconnect controls of the modal and the transport's connection state
NextReconnect ==
    \/ \E st \in ConnectionStates : SetConnectionState(st)
    \/ \E tab \in {"GATEWAY_TAB", "LOGS_TAB"} : OpenModal(tab)
    \/ CloseModal
    \/ \E tab \in {GATEWAY_TAB, LOGS_TAB, EVENTS_TAB} : SelectTab(tab)
    \/ ToggleFullReconnect
    \/ ToggleDestroyOldSession
    \/ Reconnect
    \/ Hello
    \/ \E c \in PayloadCapabilities : Send(2, c, Undefined)

SpecReconnect == InitGateway /\ [][NextReconnect]_vars

\* the bitmask values the toggle runs start from, bit 31 included
ToggleStartValues == {Small(1), Small(999), Num(2^15, 5), Num(2^16 - 1, 2^16 - 1)}

\* one identify, the modal on its gateway tab, then clicks on any of the 32 boxes
NextToggle ==
    \/ \E c \in ToggleStartValues : capabilities = Undefined /\ Send(2, c, Undefined)
    \/ OpenModal("GATEWAY_TAB")
    \/ SelectTab(GATEWAY_TAB)
    \/ \E k \in KnownCapabilityBits : ToggleCapability(k)

SpecToggle == InitGateway /\ [][NextToggle]_vars

-----------------------------------------------------------------------------
(* Properties of the gateway *)

\* capabilities of the payload the last outbound hook call returned
ReturnedCapabilities == Get(heap, sent.dataOut, "capabilities")

\* C1: a value typed into the capabilities text field (setRaw) is the value
\* carried by every later identify until the next operator edit, whatever the
\* payload's own capabilities value is.
C1_SetRawReachesIdentify ==
    (sent.opcode = 2 /\ sent.typed # Undefined) => ReturnedCapabilities = sent.typed

\* C2: capture is first-write-wins and persists: with no operator edit the bitmask
\* equals the capabilities of the first opcode-2 send seen, whatever is sent,
\* received or reconnected afterwards, and it never returns to unset.
C2_FirstWriteWins ==
    firstIdentify # Undefined =>
        /\ capabilities # Undefined
        /\ budget.toggles = MaxToggles => capabilities = firstIdentify

C2_Witness ==
    /\ budget.sends <= MaxSends - 2
    /\ budget.toggles = MaxToggles
    /\ socket.connectionState = "IDENTIFYING"
    /\ sent.opcode = 2
    /\ Get(heap, sent.dataIn, "capabilities") # firstIdentify
    /\ capabilities = firstIdentify

\* C3: the outbound hook never mutates the caller's data; for an identify the
\* returned data is another object equal to the input in every field except
\* capabilities, and an omitted flag comes back as true.
C3_InputNotMutated ==
    sent.opcode # 0 =>
        /\ \A a \in DOMAIN heapBefore : heap[a] = heapBefore[a]
        /\ sent.opcodeOut = sent.opcode
        /\ sent.flagOut = IF sent.flagIn = Undefined THEN Bool(TRUE) ELSE sent.flagIn
        /\ sent.opcode # 2 => sent.dataOut = sent.dataIn
        /\ sent.opcode = 2 =>
            /\ sent.dataOut # sent.dataIn
            /\ DOMAIN heap[sent.dataOut.a].f = DOMAIN heap[sent.dataIn.a].f
            /\ \A k \in DOMAIN heap[sent.dataIn.a].f \ {"capabilities"} :
                  deepEquals(heap, Get(heap, sent.dataOut, k), Get(heap, sent.dataIn, k))

C3_Witness ==
    /\ sent.opcode = 2
    /\ sent.flagIn = Undefined
    /\ sent.flagOut = Bool(TRUE)
    /\ budget.sends = MaxSends - 1
    /\ Get(heap, sent.dataIn, "capabilities") = Small(1)
    /\ ReturnedCapabilities = Small(1)
    /\ Get(heap, sent.dataOut, "token") = Str("x")

\* C5: toggling the same bit twice returns the bitmask to exactly its original
\* value, and one toggle changes bit k only.
C5_ToggleInvolution ==
    /\ (firstIdentify # Undefined /\ budget.toggles = MaxToggles - 2 /\ toggled = {})
          => capabilities = firstIdentify
    /\ (firstIdentify # Undefined /\ budget.toggles = MaxToggles - 1)
          => \A j \in KnownCapabilityBits :
                BitOf(capabilities, j) =
                    (BitOf(firstIdentify, j) + IF j \in toggled THEN 1 ELSE 0) % 2

\* C10: every identify returns the bitmask held at the time of the call, one
\* value per call, and that value reflects every toggle made before the call.
C10_EditsReachIdentify ==
    sent.opcode = 2 =>
        /\ ReturnedCapabilities = sent.held
        /\ \A j \in KnownCapabilityBits :
              BitOf(ReturnedCapabilities, j) =
                  (BitOf(firstIdentify, j) + IF j \in sent.toggled THEN 1 ELSE 0) % 2

C10_Witness ==
    /\ sent.opcode = 2
    /\ budget.sends <= MaxSends - 2
    /\ sent.toggled # {}
    /\ ReturnedCapabilities # Get(heap, sent.dataIn, "capabilities")

\* an unsigned 32-bit integer: 0 <= n <= 2^32 - 1
IsUint32(n) == n.t = "number" /\ n.hi \in 0 .. Half - 1 /\ n.lo \in 0 .. Half - 1

\* C11: the bitmask is always unset or an unsigned 32-bit integer; from a
\* captured uint32 value no sequence of checkbox toggles (bit 31 included) and
\* identify sends gives a negative or out-of-range value, in the stored bitmask
\* or in the capabilities field of an outbound identify.
C11_BitmaskIsUint32 ==
    /\ capabilities = Undefined \/ IsUint32(capabilities)
    /\ sent.opcode = 2 => IsUint32(ReturnedCapabilities)

-----------------------------------------------------------------------------
(* copy on its own: payload trees, their copies, and writes to the copies *)

\* {capabilities: 1, properties: {os: "linux"}, list: [1, {z: 2}]}
NestedSource ==
    [h |-> <<Obj("Object", Fields1("os", Str("linux"))),
             Obj("Object", Fields1("z", Small(2))),
             Arr(<<Small(1), Ref(2)>>),
             Obj("Object", Fields3("capabilities", Small(1), "properties", Ref(1),
                                   "list", Ref(3)))>>,
     v |-> Ref(4)]

\* a CallTrace instance: {name: "root", duration: ..., calls: [CallTrace]}
InstanceSource ==
    [h |-> <<Obj("CallTrace", Fields2("name", Str("child"), "calls", Null)),
             Arr(<<Ref(1)>>),
             Obj("CallTrace", Fields2("name", Str("root"), "calls", Ref(2)))>>,
     v |-> Ref(3)]

\* {f: function, n: null, u: undefined}
FunctionSource ==
    [h |-> <<Fn(0), Obj("Object", Fields3("f", Ref(1), "n", Null, "u", Undefined))>>,
     v |-> Ref(2)]

\* [[1], [true, [3]]]
ArraySource ==
    [h |-> <<Arr(<<Small(1)>>), Arr(<<Small(3)>>), Arr(<<Bool(TRUE), Ref(2)>>),
             Arr(<<Ref(1), Ref(3)>>)>>,
     v |-> Ref(4)]

\* {a: x, b: x} with one record x = {n: 1} reached twice
SharedSource ==
    [h |-> <<Obj("Object", Fields1("n", Small(1))),
             Obj("Object", Fields2("a", Ref(1), "b", Ref(1)))>>,
     v |-> Ref(2)]

CopySources ==
    {NestedSource, InstanceSource, FunctionSource, ArraySource, SharedSource,
     [h |-> <<>>, v |-> Small(5)], [h |-> <<>>, v |-> Str("x")],
     [h |-> <<Obj("Object", NoFields)>>, v |-> Ref(1)],
     [h |-> <<Arr(<<>>)>>, v |-> Ref(1)]}

WrittenKeys == {"capabilities", "n", "extra"}
WrittenValues == {Small(42), Null}

InitCopy ==
    /\ \E src \in CopySources :
          /\ heap = src.h
          /\ heapBefore = src.h
          /\ copied = [stage |-> "source", src |-> src.v]
    /\ capabilities = Undefined
    /\ modal = ModalClosed
    /\ socket = [connectionState |-> "CLOSED", seq |-> 0, sessionId |-> "null"]
    /\ sent = NoSend
    /\ firstIdentify = Undefined
    /\ toggled = {}
    /\ rawEdit = Undefined
    /\ budget = [sends |-> MaxSends, toggles |-> MaxToggles,
                 dispatches |-> MaxDispatches, writes |-> MaxWrites]
    /\ fixReady = TRUE
    /\ dispatch = NoDispatch
    /\ trace = NoTrace
    /\ stateWrites = <<>>

\* const c = copy(x)
DoCopy ==
    /\ copied.stage = "source"
    /\ LET r == copy(heap, copied.src)
       IN /\ heapBefore' = heap
          /\ heap' = r.h
          /\ copied' = [stage |-> "copied", src |-> copied.src, dst |-> r.v]
    /\ UNCHANGED <<capabilities, modal, socket, sent, firstIdentify, toggled, rawEdit,
                   budget, fixReady, dispatch, trace, stateWrites>>

\* a later write to a container of the copy: c.k = v on a record, c[i] = v or
\* c.push(v) on a sequence
WriteCopy(a, key, i, val) ==
    /\ copied.stage \in {"copied", "written"}
    /\ budget.writes > 0
    /\ a \in Containers(heap, copied.dst)
    /\ IF heap[a].kind = "object"
       THEN i = 1 /\ heap' = Put(heap, Ref(a), key, val)
       ELSE /\ key = "extra"
            /\ i <= Len(heap[a].e) + 1
            /\ heap' = [heap EXCEPT ![a].e =
                           IF i > Len(@) THEN Append(@, val) ELSE [@ EXCEPT ![i] = val]]
    /\ budget' = [budget EXCEPT !.writes = @ - 1]
    /\ copied' = [copied EXCEPT !.stage = "written"]
    /\ UNCHANGED <<heapBefore, capabilities, modal, socket, sent, firstIdentify,
                   toggled, rawEdit, fixReady, dispatch, trace, stateWrites>>

NextCopy ==
    \/ DoCopy
    \/ \E a \in DOMAIN heap, key \in WrittenKeys, i \in 1 .. 3, val \in WrittenValues :
          WriteCopy(a, key, i, val)

SpecCopy == InitCopy /\ [][NextCopy]_vars

\* C8: copy(x) is structurally equal to x at all non-function leaves and shares
\* no record or sequence with x at any level: every container of the copy is a
\* fresh object, so a later write to the copy leaves the original unchanged.
C8_DeepCopy ==
    /\ copied.stage = "copied" =>
          /\ deepEquals(heap, copied.dst, copied.src)
          /\ Containers(heap, copied.dst) \cap Containers(heap, copied.src) = {}
          /\ Containers(heap, copied.dst) \cap DOMAIN heapBefore = {}
          /\ IsRef(copied.src) => copied.dst # copied.src
    /\ copied.stage \in {"copied", "written"} =>
          /\ \A a \in DOMAIN heapBefore : heap[a] = heapBefore[a]
          /\ Tree(heap, copied.src) = Tree(heapBefore, copied.src)

C8_Witness ==
    /\ copied.stage = "written"
    /\ budget.writes = 0
    /\ Cardinality(Containers(heap, copied.src)) >= 4
    /\ Tree(heap, copied.dst) # Tree(heap, copied.src)

-----------------------------------------------------------------------------
(* Inbound dispatch: READY payloads handed to the hook, possibly more than once *)

InitDispatch ==
    /\ \E p \in DispatchPayloads, type \in DispatchTypes :
          /\ heap = p.h
          /\ heapBefore = p.h
          /\ dispatch = [type |-> type, data |-> p.v, result |-> "pending",
                         normalized |-> 0, received |-> p.h, once |-> p.h]
    /\ capabilities = Undefined
    /\ modal = ModalClosed
    /\ socket = [connectionState |-> "SESSION_ESTABLISHED", seq |-> 0,
                 sessionId |-> "null"]
    /\ sent = NoSend
    /\ firstIdentify = Undefined
    /\ toggled = {}
    /\ rawEdit = Undefined
    /\ budget = [sends |-> MaxSends, toggles |-> MaxToggles,
                 dispatches |-> MaxDispatches, writes |-> MaxWrites]
    /\ fixReady = TRUE
    /\ trace = NoTrace
    /\ copied = NoCopy
    /\ stateWrites = <<>>

\* GatewaySocket._handleDispatch(data, type, extra): the patched method runs the
\* hook first; a throw leaves the payload as far as the hook had rewritten it
Dispatch ==
    /\ dispatch.type \in DispatchTypes
    /\ budget.dispatches > 0
    /\ LET r == interceptIncomingDispatchPayload(heap, dispatch.type, dispatch.data,
                                                 fixReady)
           normalizes == dispatch.type = "READY" /\ fixReady
       IN /\ heapBefore' = heap
          /\ heap' = r.h
          /\ dispatch' = [dispatch EXCEPT
                            !.result = r.result,
                            !.normalized = IF normalizes THEN @ + 1 ELSE @,
                            !.once = IF normalizes /\ dispatch.normalized = 0
                                     THEN r.h ELSE @]
    /\ budget' = [budget EXCEPT !.dispatches = @ - 1]
    /\ UNCHANGED <<capabilities, modal, socket, sent, firstIdentify, toggled, rawEdit,
                   fixReady, trace, copied, stateWrites>>

\* the fixReady switch of the plugin settings (index.tsx:334-340)
SetFixReady ==
    /\ fixReady' = ~fixReady
    /\ UNCHANGED <<heap, heapBefore, capabilities, modal, socket, sent, firstIdentify,
                   toggled, rawEdit, budget, dispatch, trace, copied, stateWrites>>

NextDispatch == Dispatch \/ SetFixReady

SpecDispatch == InitDispatch /\ [][NextDispatch]_vars

\* the guild list of the payload, when it is a sequence; empty otherwise
GuildEntries(h) ==
    LET guilds == Get(h, dispatch.data, "guilds")
    IN IF IsArray(h, guilds) THEN {h[guilds.a].e[i] : i \in DOMAIN h[guilds.a].e} ELSE {}

\* the guild records that were still flat when the payload arrived
FlatGuilds ==
    {g \in GuildEntries(dispatch.received) :
        IsObject(dispatch.received, g)
        /\ "properties" \notin DOMAIN dispatch.received[g.a].f}

AllowList == {outerFields[i] : i \in DOMAIN outerFields}

\* C4: after a READY dispatch with normalisation enabled every guild record that
\* lacked `properties` has each allowlisted field moved under `properties` and
\* deleted from the top level, and every other field left at the top level.
C4_GuildPartition ==
    (dispatch.type = "READY" /\ dispatch.normalized >= 1 /\ dispatch.result = "returned")
    => \A g \in FlatGuilds :
          LET before == dispatch.received[g.a].f
              after == heap[g.a].f
          IN /\ "properties" \in DOMAIN after
             /\ IsObject(heap, after["properties"])
             /\ DOMAIN after = (DOMAIN before \ AllowList) \cup {"properties"}
             /\ DOMAIN heap[after["properties"].a].f = DOMAIN before \cap AllowList
             /\ \A k \in DOMAIN before \ AllowList : after[k] = before[k]
             /\ \A k \in DOMAIN before \cap AllowList :
                   heap[after["properties"].a].f[k] = before[k]

\* C6: the normaliser is idempotent: a second application to the same READY
\* payload changes nothing, read_state and user_guild_settings are wrapped at most
\* once, and a guild record that already has `properties` is left unchanged.
C6_Idempotent ==
    /\ dispatch.type = "READY" /\ dispatch.normalized >= 2 => heap = dispatch.once
    /\ dispatch.type = "READY" /\ dispatch.normalized >= 1 =>
          /\ \A g \in GuildEntries(dispatch.received) :
                (IsObject(dispatch.received, g)
                 /\ "properties" \in DOMAIN dispatch.received[g.a].f)
                => heap[g.a] = dispatch.received[g.a]
          /\ \A key \in {"read_state", "user_guild_settings"} :
                LET was == Get(dispatch.received, dispatch.data, key)
                    now == Get(heap, dispatch.data, key)
                IN IF IsArray(dispatch.received, was)
                   THEN IsObject(heap, now) /\ Get(heap, now, "entries") = was
                   ELSE now = was

C6_Witness ==
    /\ dispatch.type = "READY"
    /\ dispatch.normalized >= 2
    /\ dispatch.result = "returned"
    /\ heap # dispatch.received
    /\ FlatGuilds # {}
    /\ IsArray(dispatch.received,
               Get(dispatch.received, dispatch.data, "user_guild_settings"))
    /\ IsObject(dispatch.received, Get(dispatch.received, dispatch.data, "read_state"))
    /\ \E g \in GuildEntries(dispatch.received) :
          "properties" \in DOMAIN dispatch.received[g.a].f

\* C9: a malformed READY payload never aborts the dispatch: the hook returns, the
\* well-formed guild records are normalised, and an event that cannot be
\* normalised is returned unmodified.
C9_MalformedTolerated ==
    (dispatch.type = "READY" /\ dispatch.normalized >= 1) =>
        /\ dispatch.result = "returned"
        /\ \A g \in GuildEntries(heap) :
              IsObject(heap, g) => "properties" \in DOMAIN heap[g.a].f
        /\ ~IsArray(heap, Get(heap, dispatch.data, "guilds")) => heap = dispatch.received

-----------------------------------------------------------------------------
(* Call traces: tuple lists from the wire, converted to nodes and back *)

TraceMicros == {1, 2, 1000, 2500}

\* ["child", {micros}] and ["child", {micros, calls: []}]
LeafTuples ==
    {<<"child", [micros |-> m]>> : m \in TraceMicros}
    \cup {<<"child", [micros |-> m, calls |-> <<>>]>> : m \in TraceMicros}

\* ["root", {micros, calls: [leaf]}], with and without a second level below
RootTuples ==
    {<<"root", [micros |-> m, calls |-> <<leaf>>]>> : m \in TraceMicros, leaf \in LeafTuples}
    \cup {<<"root", [micros |-> 2500,
                    calls |-> <<<<"mid", [micros |-> 1000, calls |-> <<leaf>>]>>,
                                <<"child", [micros |-> 2, calls |-> <<>>]>>>>]>> :
            leaf \in LeafTuples}

WireLists ==
    {<<>>} \cup {<<t>> : t \in LeafTuples \cup RootTuples}
    \cup {<<<<"first", [micros |-> 1000, calls |-> <<t>>]>>, t>> : t \in LeafTuples}

InitTrace ==
    /\ \E w \in WireLists : trace = [stage |-> "wire", wire |-> w]
    /\ heap = <<>>
    /\ heapBefore = <<>>
    /\ capabilities = Undefined
    /\ modal = ModalClosed
    /\ socket = [connectionState |-> "SESSION_ESTABLISHED", seq |-> 0,
                 sessionId |-> "null"]
    /\ sent = NoSend
    /\ firstIdentify = Undefined
    /\ toggled = {}
    /\ rawEdit = Undefined
    /\ budget = [sends |-> MaxSends, toggles |-> MaxToggles,
                 dispatches |-> MaxDispatches, writes |-> MaxWrites]
    /\ fixReady = TRUE
    /\ dispatch = NoDispatch
    /\ copied = NoCopy
    /\ stateWrites = <<>>

\* tuples.map(([n, d]) => new CallTrace(n, d))
FromWire ==
    /\ trace.stage = "wire"
    /\ trace' = [stage |-> "nodes", wire |-> trace.wire, nodes |-> fromWire(trace.wire)]
    /\ UNCHANGED <<heap, heapBefore, capabilities, modal, socket, sent, firstIdentify,
                   toggled, rawEdit, budget, fixReady, dispatch, copied, stateWrites>>

\* nodes.map(call => call.toData())
ToWire ==
    /\ trace.stage = "nodes"
    /\ trace' = [stage |-> "out", wire |-> trace.wire, nodes |-> trace.nodes,
                 out |-> toWire(trace.nodes)]
    /\ UNCHANGED <<heap, heapBefore, capabilities, modal, socket, sent, firstIdentify,
                   toggled, rawEdit, budget, fixReady, dispatch, copied, stateWrites>>

NextTrace == FromWire \/ ToWire

SpecTrace == InitTrace /\ [][NextTrace]_vars

\* every payload of the tuple list, at every depth, has a `calls` key
RECURSIVE HasCallsEverywhere(_)
HasCallsEverywhere(tuples) ==
    \A i \in DOMAIN tuples :
        /\ "calls" \in DOMAIN tuples[i][2]
        /\ HasCallsEverywhere(tuples[i][2].calls)

\* the tuple list with an empty `calls` put wherever the key is absent
RECURSIVE WithCalls(_)
WithCalls(tuples) ==
    [i \in DOMAIN tuples |->
        <<tuples[i][1],
          [micros |-> tuples[i][2].micros,
           calls |-> IF "calls" \in DOMAIN tuples[i][2]
                     THEN WithCalls(tuples[i][2].calls) ELSE <<>>]>>]

\* C7 as stated: toWire(fromWire(t)) = t for every tuple list t with integer
\* micros, at every depth, also when a payload has no `calls` key.
C7_RoundTrip == trace.stage = "out" => trace.out = trace.wire

\* C7 as amended: the round trip returns t when every payload of t, at every
\* depth, has a `calls` key; a payload without `calls` comes back with an empty
\* `calls` and is otherwise the same.
C7_RoundTripWithCalls ==
    trace.stage = "out" =>
        /\ trace.out = WithCalls(trace.wire)
        /\ HasCallsEverywhere(trace.wire) => trace.out = trace.wire

C7_Witness ==
    /\ trace.stage = "out"
    /\ HasCallsEverywhere(trace.wire)
    /\ trace.out = trace.wire
    /\ Len(trace.wire) = 1
    /\ trace.wire[1][2].micros = 2500
    /\ Len(trace.wire[1][2].calls) = 2
    /\ Len(trace.wire[1][2].calls[1][2].calls) = 1
    /\ trace.nodes[1].calls[2].duration # 0

\* buildTree(nodes)
BuildTree ==
    /\ trace.stage = "nodes"
    /\ trace' = [stage |-> "text", wire |-> trace.wire, nodes |-> trace.nodes,
                 text |-> buildTree(trace.nodes)]
    /\ UNCHANGED <<heap, heapBefore, capabilities, modal, socket, sent, firstIdentify,
                   toggled, rawEdit, budget, fixReady, dispatch, copied, stateWrites>>

NextRender == FromWire \/ BuildTree

SpecRender == InitTrace /\ [][NextRender]_vars

\* depth repetitions of "|  "
Bars(depth) == [i \in 1 .. depth |-> BarPrefix]

\* one line per node in depth-first order, prefixed once per ancestor
RECURSIVE TreeLines(_, _)
TreeLines(calls, depth) ==
    IF calls = <<>> THEN <<>>
    ELSE << Bars(depth) \o <<LineText(Head(calls))>> >>
         \o TreeLines(Head(calls).calls, depth + 1)
         \o TreeLines(Tail(calls), depth)

\* the lines of a text, a newline at its end closing the last line
RenderedLines(text) ==
    LET lines == Split(text)
    IN IF lines[Len(lines)] = <<>> THEN SubSeq(lines, 1, Len(lines) - 1) ELSE lines

\* C12: render gives exactly one line per node of the forest, in depth-first
\* order, each "<name>: <durationMillis>" prefixed by "|  " once per ancestor; a
\* top-level node after a node with children has no prefix, and no line is a
\* prefix alone.
C12_OneLinePerNode ==
    trace.stage = "text" => RenderedLines(trace.text) = TreeLines(trace.nodes, 0)

\* C13: the plugin is a passive tap on the connection state: no operation of
\* the plugin (the hooks, the connection-state hook, the operator's reconnect
\* action) assigns the transport's connection state, every assignment is the
\* transport's own, and the connection-state hook changes neither the state
\* nor the capability bitmask.
C13_PassiveTap ==
    /\ \A i \in DOMAIN stateWrites : stateWrites[i].by = "transport"
    /\ \A st \in ConnectionStates :
          captureConnectionStateUpdate(socket, socket.connectionState, st) = socket

====
